---- MODULE Spec2Model ----
(***************************************************************************)
(* The per-IP rate limiter of sale-watches:                                *)
(*   pkg/security/rate_limiter/rate_limiter.go  (DefaultRateLimiter,       *)
(*       DefaultRateLimiterManager, LimiterEntry)                          *)
(*   pkg/security/rate_limiter/clear_limiter.go (RateLimiterCleaner)       *)
(*                                                                         *)
(* Request goroutines run DefaultRateLimiter.Allow(ip); every statement    *)
(* of GetRateLimiterForIP that touches shared memory (the clock, the       *)
(* sync.Map, an entry's lastSeen) is one step, and so is the call of the   *)
(* bucket, which golang.org/x/time/rate runs under the limiter's mutex.    *)
(* The cleaner goroutine runs CleanupInactiveLimiters, one Range callback  *)
(* per step.  Goroutines are anonymous: the calls in flight form a bag.    *)
(*                                                                         *)
(* Time is counted in ticks.  A bucket's tokens are counted in units of    *)
(* 1/TokenUnit token and a rate is the number of units gained per tick,    *)
(* so the float arithmetic of the bucket is exact on the grid.             *)
(***************************************************************************)
EXTENDS Integers, Sequences, FiniteSets, Bags, TLC

\* ---------------------------------------------------------------- bounds
NumProcs == 2        \* request goroutines in flight at once
NumIPs   == 2        \* distinct client addresses
MaxCalls == 3        \* Allow(ip) calls started in one behaviour
MaxTime  == 2        \* ticks the clock advances
MaxBurst == 2        \* largest configured burst
MaxRate  == 2        \* largest configured rate, in units per tick
MaxSets  == 1        \* SetDefaultLimiterConfig calls in one behaviour
CleanupInterval == 1 \* cleanupInterval handed to the cleaner, in ticks
IdleTicks == 1       \* expirationDuration handed to the cleaner, in ticks
MaxPathLen == 4      \* longest request path, in slashes and segment names
NumMiddlewares == 3  \* distinct middlewares
MaxChain == 2        \* longest list of global and of route-specific middlewares
MaxOptions == 2      \* longest list of cookie options a caller passes
MaxRating == 7       \* largest rating, of either sign, handed to the comment validator
MaxPassword == 10    \* longest password, in characters
MaxUserName == 6     \* longest user name, in bytes

IPs == 1..NumIPs

\* One token is TokenUnit units: the fastest rate refills one token a tick.
TokenUnit == MaxRate

Min(a, b) == IF a < b THEN a ELSE b
Max(a, b) == IF a > b THEN a ELSE b

\* ------------------------------------------------------------------ time
\* time.Time{}: the `last` of a limiter that never admitted anything.
ZeroTime == 0
\* The process starts long after the zero time: long enough for any
\* configured rate to fill any configured burst.
StartTime == ZeroTime + MaxBurst * TokenUnit

\* ---------------------------------------------------------------- config
\* models.LimiterConfig{RequestPerSecond, Burst}.  The core validates
\* neither field; a burst may be zero or negative.
LimiterConfig == [RequestPerSecond : 1..MaxRate, Burst : (0 - 1)..MaxBurst]

VARIABLES
  now,             \* the clock time.Now() reads
  defaultConfig,   \* DefaultRateLimiterManager.defaultConfig
  ipLimiterCache,  \* DefaultRateLimiterManager.ipLimiterCache: ip -> entry (0: absent)
  entries,         \* the *LimiterEntry values ever stored in the cache, in order
  inflight,        \* the bag of Allow(ip) calls in flight: position and locals
  sweep,           \* the cleaner goroutine's position and locals
  calls,           \* Allow(ip) calls started so far
  hist,            \* per entry, the Allow() calls its limiter answered, in mutex order
  pending,         \* a SetDefaultLimiterConfig in progress: the fields still to write
  served,          \* the responses the rate-limit middlewares have produced
  boot,            \* main(): the startup path and how far it has run
  ticker,          \* the cleaner's time.Ticker: its channel and what went through it
  request,         \* the request AuthMiddleware handled last, and its response
  manager,         \* the MiddlewareManager: its globalMiddlewares
  route,           \* the handler built last by Chain or Apply, and the request running through it
  cookie,          \* the CookieConfig built last, and what it was built from
  comment,         \* the input CommentValidator.Validate was called with, and its result
  password,        \* the password being typed, and what PasswordValidator.Validate said of it
  settings,        \* AppConfig: the rate_limiting settings Viper has loaded
  register,        \* the Register call in progress: its account, position and result
  users            \* UserRepository: the user names saved

\* The state outside the rate limiter.
appVars == <<request, manager, route, cookie, comment, password, settings,
            register, users>>

\* The state of the rate limiter.
limiterVars == <<now, defaultConfig, ipLimiterCache, entries, inflight, sweep, calls, hist,
                 pending, served, boot, ticker>>

vars == <<now, defaultConfig, ipLimiterCache, entries, inflight, sweep, calls, hist,
          pending, served, boot, ticker, appVars>>

\* ------------------------------------------------- golang.org/x/time/rate
NoLimiter == [limit |-> 0, burst |-> 0, tokens |-> 0, last |-> ZeroTime]

\* A NewLimiter that builds the bucket one token too large.
MutNewLimiterExtra(config) ==
  [limit |-> config.RequestPerSecond, burst |-> config.Burst + 1,
   tokens |-> (config.Burst + 1) * TokenUnit, last |-> ZeroTime]

\* A NewLimiter that raises a burst below one to one.
MutNewLimiterClamped(config) ==
  [limit |-> config.RequestPerSecond, burst |-> Max(config.Burst, 1),
   tokens |-> Max(config.Burst, 1) * TokenUnit, last |-> ZeroTime]

\* rate.NewLimiter(rate.Limit(RequestPerSecond), Burst): a full bucket that
\* has never been advanced.
NewLimiter(config) ==
  [limit |-> config.RequestPerSecond, burst |-> config.Burst,
   tokens |-> config.Burst * TokenUnit, last |-> ZeroTime]

\* An advance that refills at half the rate.
MutAdvanceHalf(lim, t) ==
  LET last    == IF t < lim.last THEN t ELSE lim.last
      elapsed == t - last
      delta   == IF lim.limit <= 0 THEN 0 ELSE (elapsed * lim.limit) \div 2
  IN  Min(lim.tokens + delta, lim.burst * TokenUnit)

\* An advance that does not cap the count at the burst.
MutAdvanceNoCap(lim, t) ==
  LET last    == IF t < lim.last THEN t ELSE lim.last
      elapsed == t - last
      delta   == IF lim.limit <= 0 THEN 0 ELSE elapsed * lim.limit
  IN  lim.tokens + delta

\* An advance that refills a bucket whose rate is not positive as if the
\* rate were one unit per tick.
MutAdvanceAnyRate(lim, t) ==
  LET last    == IF t < lim.last THEN t ELSE lim.last
      elapsed == t - last
      delta   == IF lim.limit <= 0 THEN elapsed ELSE elapsed * lim.limit
  IN  Min(lim.tokens + delta, lim.burst * TokenUnit)

\* Limiter.advance(t): the token count at t; the state is left alone.
Advance(lim, t) ==
  LET last    == IF t < lim.last THEN t ELSE lim.last
      elapsed == t - last
      delta   == IF lim.limit <= 0 THEN 0 ELSE elapsed * lim.limit
  IN  Min(lim.tokens + delta, lim.burst * TokenUnit)

\* Limiter.reserveN(t, 1, 0).ok: a whole token is there at t.
ReserveOk(lim, t) == 1 <= lim.burst /\ Advance(lim, t) - TokenUnit >= 0

\* A reserveN that moves `last` to t without the refill when it rejects.
MutReserveWritesOnReject(lim, t) ==
  IF ReserveOk(lim, t)
  THEN [lim EXCEPT !.last = t, !.tokens = Advance(lim, t) - TokenUnit]
  ELSE [lim EXCEPT !.last = t]

\* A reserveN that admits without deducting the token.
MutReserveNoDeduct(lim, t) ==
  IF ReserveOk(lim, t)
  THEN [lim EXCEPT !.last = t, !.tokens = Advance(lim, t)]
  ELSE lim

\* Limiter.reserveN(t, 1, 0): the state after the call; only an admitted
\* call updates it.
ReserveN(lim, t) ==
  IF ReserveOk(lim, t)
  THEN [lim EXCEPT !.last = t, !.tokens = Advance(lim, t) - TokenUnit]
  ELSE lim

\* ------------------------------------------------------------------ init
\* A call's locals: where it is, ipAddress, currentTime, the record it
\* loaded, the limiter it built, the entry whose limiter it returned.
Call(pc, ip, currentTime, record, newLimiter, limiter) ==
  [pc |-> pc, ipAddress |-> ip, currentTime |-> currentTime,
   record |-> record, newLimiter |-> newLimiter, limiter |-> limiter]

InFlight == BagToSet(inflight)

Step(c, d) == (inflight (-) SetToBag({c})) (+) SetToBag({d})

IdleSweep == [active |-> FALSE, currentTime |-> 0, todo |-> {}]

\* The fields of models.LimiterConfig.
Fields == {"RequestPerSecond", "Burst"}

NoConfig == [RequestPerSecond |-> 0, Burst |-> 0]

\* No SetDefaultLimiterConfig has been called.  A call keeps its argument
\* in `config`, the pair it found in `old`, and in `todo` the fields of
\* m.defaultConfig it has not written yet; `sets` counts the calls.
IdleSetter(sets) == [todo |-> {}, config |-> NoConfig, old |-> NoConfig, sets |-> sets]

\* The manager was built directly; no main() is being followed.
NoBoot == [path |-> "none", pc |-> "serve", swept |-> 0, starts |-> 0, limited |-> 1]

\* No ticker has been created.  `late` records that the clock has moved
\* on while a goroutine was in the middle of a lookup or of a sweep, or
\* had a tick waiting for it.
NoTicker ==
  [running |-> FALSE, c |-> 0, next |-> 0, fires |-> 0, sweeps |-> 0, late |-> FALSE]

\* No request has reached the authentication middleware.
NoRequest == [path |-> <<>>, cookie |-> "absent", status |-> 0, next |-> 0]

\* NewMiddlewareManager(): no global middleware.
NewMiddlewareManager == [globalMiddlewares |-> <<>>]

\* No handler has been built.  A built handler is kept with the lists it
\* was built from; `todo` is what a request running through it has still
\* to enter and `trace` what it has entered, in order.
NoRoute == [globals |-> <<>>, listed |-> <<>>, handler |-> <<>>, todo |-> <<>>, trace |-> <<>>]

\* The zero CookieConfig.
ZeroCookieConfig ==
  [Name |-> "", Value |-> "", MaxAge |-> 0, HttpOnly |-> FALSE, Path |-> "",
   Secure |-> FALSE, SameSite |-> ""]

\* No cookie configuration has been built.
NoCookie ==
  [built |-> "none", isProduction |-> FALSE, options |-> <<>>, config |-> ZeroCookieConfig]

\* CommentValidator.Validate has not been called.
NoComment == [called |-> FALSE, input |-> <<>>, err |-> ""]

\* A character of a password: what the unicode package says of it and
\* the bytes its UTF-8 encoding takes ('A' and 'É', 'a' and 'ñ', '1' and
\* an Arabic-Indic digit, '!' and '¿').
Characters == [class : {"upper", "lower", "digit", "special"}, width : {1, 2}]

\* The empty password, not yet validated.  A password is kept as the
\* number of characters of each kind it holds.
NoPassword == [chars |-> [ch \in Characters |-> 0], validated |-> FALSE, err |-> ""]

\* No Register call has been made.  A call keeps its account, the steps
\* it has run in `trace`, whether it has saved the user, and what it
\* returned: the token and the kind of the error, "" for nil.
NoRegister ==
  [pc |-> "idle", UserName |-> 0, Password |-> [ch \in Characters |-> 0],
   trace |-> <<>>, saved |-> FALSE, token |-> "", err |-> ""]

\* No handler, validator or cookie helper has run.
HandlersIdle ==
  /\ request = NoRequest
  /\ manager = NewMiddlewareManager
  /\ route = NoRoute
  /\ cookie = NoCookie
  /\ comment = NoComment
  /\ password = NoPassword
  /\ register = NoRegister
  /\ users = {}

\* NewAppConfig() with no configuration file: the registered defaults
\* rate_limiting.requests = 10.0 and rate_limiting.cleanup_minutes = 5; a
\* key that was never set reads as zero.
DefaultSettings == [requests |-> 10, burst |-> 0, cleanup_minutes |-> 5]

\* Nothing outside the rate limiter has run.
AppIdle == HandlersIdle /\ settings = DefaultSettings

\* The keys the cache holds.
Cached == {ip \in IPs : ipLimiterCache[ip] # 0}

\* NewRateLimiterManager(): one fixed default pair with a positive burst.
ManagerDefault == CHOOSE config \in LimiterConfig : config.Burst >= 1

\* The pairs SetDefaultLimiterConfig is called with: the manager's own
\* default and one pair that differs from it in rate and in burst.
Reconfigured ==
  {ManagerDefault,
   CHOOSE config \in LimiterConfig :
     /\ config.RequestPerSecond # ManagerDefault.RequestPerSecond
     /\ config.Burst >= 1 /\ config.Burst # ManagerDefault.Burst}

\* The state NewDefaultRateLimiter(requestPerSecond, burst) leaves: an
\* empty cache and the configured pair as default.
Init ==
  /\ now = StartTime
  /\ defaultConfig \in LimiterConfig
  /\ ipLimiterCache = [ip \in IPs |-> 0]
  /\ entries = <<>>
  /\ inflight = EmptyBag
  /\ sweep = IdleSweep
  /\ calls = 0
  /\ hist = <<>>
  /\ pending = IdleSetter(0)
  /\ served = {}
  /\ boot = NoBoot
  /\ ticker = NoTicker
  /\ AppIdle

\* main() is entered on startup path `path`: no manager, no cleaner and
\* no handler exist yet.
MainStart(path) == [path |-> path, pc |-> "start", swept |-> 0, starts |-> 0, limited |-> 0]

\* The two programs: cmd/main.go and cmd/api/main.go.
Paths == {"cmd", "api"}

\* ----------------------------------------------- DefaultRateLimiter.Allow
\* d.manager.GetRateLimiterForIP(ipAddress): currentTime := time.Now()
GetBegin(ip) ==
  /\ BagCardinality(inflight) < NumProcs
  /\ calls < MaxCalls
  /\ calls' = calls + 1
  /\ inflight' = inflight (+) SetToBag({Call("load", ip, now, 0, NoLimiter, 0)})
  /\ UNCHANGED <<now, defaultConfig, ipLimiterCache, entries, sweep, hist,
               pending, served, boot, ticker, appVars>>

\* A Load that cannot proceed while a Range is under way, as with a map
\* guarded by one mutex held for the whole sweep.
MutLoadWaitsForSweep(c) ==
  /\ ~sweep.active
  /\ c.pc = "load"
  /\ LET record == ipLimiterCache[c.ipAddress]
     IN  inflight' = Step(c, [c EXCEPT !.pc = IF record # 0 THEN "found" ELSE "make",
                                       !.record = record])
  /\ UNCHANGED <<now, defaultConfig, ipLimiterCache, entries, sweep, calls, hist,
               pending, served, boot, ticker, appVars>>

\* record, exists := m.ipLimiterCache.Load(ipAddress)
GetLoad(c) ==
  /\ c.pc = "load"
  /\ LET record == ipLimiterCache[c.ipAddress]
     IN  inflight' = Step(c, [c EXCEPT !.pc = IF record # 0 THEN "found" ELSE "make",
                                       !.record = record])
  /\ UNCHANGED <<now, defaultConfig, ipLimiterCache, entries, sweep, calls, hist,
               pending, served, boot, ticker, appVars>>

\* limiterRecord.lastSeen = currentTime; return limiterRecord.limiter
GetTouch(c) ==
  /\ c.pc = "found"
  /\ entries' = [entries EXCEPT ![c.record].lastSeen = c.currentTime]
  /\ inflight' = Step(c, [c EXCEPT !.pc = "allow", !.record = 0, !.limiter = c.record])
  /\ UNCHANGED <<now, defaultConfig, ipLimiterCache, sweep, calls, hist,
               pending, served, boot, ticker, appVars>>

\* newLimiter := rate.NewLimiter(...); newRecord := &LimiterEntry{newLimiter, currentTime}
GetNew(c) ==
  /\ c.pc = "make"
  /\ inflight' = Step(c, [c EXCEPT !.pc = "store", !.newLimiter = NewLimiter(defaultConfig)])
  /\ UNCHANGED <<now, defaultConfig, ipLimiterCache, entries, sweep, calls, hist,
               pending, served, boot, ticker, appVars>>

\* A GetRateLimiterForIP that inserts with Store after its Load found
\* nothing: check-then-insert, the last writer replaces the entry.
MutStoreOverwrites(c) ==
  /\ c.pc = "store"
  /\ LET new == Len(entries) + 1
     IN  /\ entries' = Append(entries, [limiter |-> c.newLimiter,
                                        lastSeen |-> c.currentTime,
                                        ip |-> c.ipAddress])
         /\ hist' = Append(hist, <<>>)
         /\ ipLimiterCache' = [ipLimiterCache EXCEPT ![c.ipAddress] = new]
         /\ inflight' = Step(c, [c EXCEPT !.pc = "allow", !.limiter = new])
  /\ UNCHANGED <<now, defaultConfig, sweep, calls,
               pending, served, boot, ticker, appVars>>

\* A GetRateLimiterForIP that returns newLimiter also when LoadOrStore
\* reported loaded: the loser keeps the bucket it built.
MutLoadedReturnsOwn(c) ==
  /\ c.pc = "store"
  /\ LET actual == ipLimiterCache[c.ipAddress]
         new    == Len(entries) + 1
     IN  /\ entries' = Append(entries, [limiter |-> c.newLimiter,
                                        lastSeen |-> c.currentTime,
                                        ip |-> c.ipAddress])
         /\ hist' = Append(hist, <<>>)
         /\ ipLimiterCache' = IF actual # 0 THEN ipLimiterCache
                              ELSE [ipLimiterCache EXCEPT ![c.ipAddress] = new]
         /\ inflight' = Step(c, [c EXCEPT !.pc = "allow", !.limiter = new])
  /\ UNCHANGED <<now, defaultConfig, sweep, calls,
               pending, served, boot, ticker, appVars>>

\* A GetRateLimiterForIP whose cache ignores the key: once a bucket
\* exists, every address is handed that bucket.
MutSharedBucket(c) ==
  /\ c.pc = "store"
  /\ LET new == Len(entries) + 1
     IN  IF new > 1
         THEN /\ inflight' = Step(c, [c EXCEPT !.pc = "allow", !.limiter = 1])
              /\ UNCHANGED <<ipLimiterCache, entries, hist>>
         ELSE /\ entries' = Append(entries, [limiter |-> c.newLimiter,
                                             lastSeen |-> c.currentTime,
                                             ip |-> c.ipAddress])
              /\ hist' = Append(hist, <<>>)
              /\ ipLimiterCache' = [ipLimiterCache EXCEPT ![c.ipAddress] = new]
              /\ inflight' = Step(c, [c EXCEPT !.pc = "allow", !.limiter = new])
  /\ UNCHANGED <<now, defaultConfig, sweep, calls,
               pending, served, boot, ticker, appVars>>

\* actualRecord, loaded := m.ipLimiterCache.LoadOrStore(ipAddress, newRecord)
\* loaded: return actualRecord.limiter; stored: return newLimiter.
GetLoadOrStore(c) ==
  /\ c.pc = "store"
  /\ LET actual == ipLimiterCache[c.ipAddress]
         new    == Len(entries) + 1
     IN  IF actual # 0
         THEN /\ inflight' = Step(c, [c EXCEPT !.pc = "allow", !.limiter = actual])
              /\ UNCHANGED <<ipLimiterCache, entries, hist>>
         ELSE /\ entries' = Append(entries, [limiter |-> c.newLimiter,
                                             lastSeen |-> c.currentTime,
                                             ip |-> c.ipAddress])
              /\ hist' = Append(hist, <<>>)
              /\ ipLimiterCache' = [ipLimiterCache EXCEPT ![c.ipAddress] = new]
              /\ inflight' = Step(c, [c EXCEPT !.pc = "allow", !.limiter = new])
  /\ UNCHANGED <<now, defaultConfig, sweep, calls,
               pending, served, boot, ticker, appVars>>

\* The calls in flight that hold the limiter of entry e and have not yet
\* asked it.
AtBucket(e) ==
  LET holders == {d \in InFlight : d.pc = "allow" /\ d.limiter = e}
  IN  BagCardinality([d \in holders |-> CopiesIn(d, inflight)])

\* return limiter.Allow(): AllowN(time.Now(), 1), which runs reserveN under
\* the limiter's mutex.  hist keeps the time of the call, the token count
\* it found there, its answer, and how many other calls were waiting at
\* the same bucket.
Answer(c) ==
  /\ c.pc = "allow"
  /\ LET lim == entries[c.limiter].limiter
     IN  /\ entries' = [entries EXCEPT ![c.limiter].limiter = ReserveN(lim, now)]
         /\ hist' = [hist EXCEPT ![c.limiter] =
                       Append(@, [t |-> now, ok |-> ReserveOk(lim, now),
                                  pre |-> Advance(lim, now),
                                  rivals |-> AtBucket(c.limiter) - 1])]
  /\ inflight' = inflight (-) SetToBag({c})
  /\ UNCHANGED <<now, defaultConfig, ipLimiterCache, sweep, calls,
               pending, boot, ticker, appVars>>

\* DefaultRateLimiter.Allow returns to a caller that is no middleware.
LimiterAllow(c) == Answer(c) /\ UNCHANGED served

\* ------------------------------------------------------ RateLimitMiddleware
\* http.StatusTooManyRequests
StatusTooManyRequests == 429

\* internal/adapters/primary/http/middleware.RateLimitMiddleware:
\* if !limiter.Allow(clientIP) { http.Error(w, ..., 429); return }
\* next.ServeHTTP(w, r).  `next` counts the calls of the next handler;
\* an admitted request gets the status the next handler writes, 200.
AdapterMiddleware(allowed) ==
  IF ~allowed THEN [status |-> StatusTooManyRequests, next |-> 0]
  ELSE [status |-> 200, next |-> 1]

\* pkg/security/rate_limiter.RateLimitMiddleware:
\* if !limiter.Allow() { errors.NewTooManyRequestsError(...); return }
\* next.ServeHTTP(w, r).  The AppError is built and dropped and nothing
\* is written to w, so net/http answers 200 with an empty body.
PkgMiddleware(allowed) ==
  IF ~allowed THEN [status |-> 200, next |-> 0]
  ELSE [status |-> 200, next |-> 1]

Middlewares == {"adapter", "pkg"}

\* The request went through middleware mw: the limiter answers and the
\* middleware responds.
RateLimitMiddleware(mw, c) ==
  /\ Answer(c)
  /\ LET allowed == ReserveOk(entries[c.limiter].limiter, now)
         outcome == IF mw = "adapter" THEN AdapterMiddleware(allowed)
                    ELSE PkgMiddleware(allowed)
     IN  served' = served \cup {[middleware |-> mw, allowed |-> allowed,
                                 status |-> outcome.status, next |-> outcome.next]}

\* ------------------------------- RateLimiterCleaner / CleanupInactiveLimiters
\* A tick of the cleaner's ticker: currentTime := time.Now() and Range
\* starts.  Range visits every key present when it starts and may or may
\* not visit one stored while it runs.
SweepBegin(keys) ==
  /\ ~sweep.active
  /\ {ip \in IPs : ipLimiterCache[ip] # 0} \subseteq keys
  /\ keys # {}
  /\ sweep' = [active |-> TRUE, currentTime |-> now, todo |-> keys]
  /\ UNCHANGED <<now, defaultConfig, ipLimiterCache, entries, inflight, calls, hist,
               pending, served, boot, ticker, appVars>>

\* A sweep that also removes an entry idle for exactly expirationDuration.
MutExpiredInclusive(currentTime, lastSeen, expirationDuration) ==
  currentTime - lastSeen >= expirationDuration

\* currentTime.Sub(limiterRecord.lastSeen) > expirationDuration
Expired(currentTime, lastSeen, expirationDuration) ==
  currentTime - lastSeen > expirationDuration

\* A sweep that stores a nil record under an expired key instead of
\* deleting the key.
MutSweepStoresNil(key) ==
  /\ sweep.active
  /\ key \in sweep.todo
  /\ LET record == ipLimiterCache[key]
     IN  ipLimiterCache' =
           IF record # 0 /\ Expired(sweep.currentTime, entries[record].lastSeen, IdleTicks)
           THEN [ipLimiterCache EXCEPT ![key] = 0 - 1]
           ELSE ipLimiterCache
  /\ sweep' = IF sweep.todo = {key} THEN IdleSweep
              ELSE [sweep EXCEPT !.todo = @ \ {key}]
  /\ UNCHANGED <<now, defaultConfig, entries, inflight, calls, hist,
               pending, served, boot, ticker, appVars>>

\* One Range callback: the value the key maps to now; Delete(key) when it
\* has been idle for longer than expirationDuration.
SweepVisit(key) ==
  /\ sweep.active
  /\ key \in sweep.todo
  /\ LET record == ipLimiterCache[key]
     IN  ipLimiterCache' =
           IF record # 0 /\ Expired(sweep.currentTime, entries[record].lastSeen, IdleTicks)
           THEN [ipLimiterCache EXCEPT ![key] = 0]
           ELSE ipLimiterCache
  /\ sweep' = IF sweep.todo = {key} THEN IdleSweep
              ELSE [sweep EXCEPT !.todo = @ \ {key}]
  /\ UNCHANGED <<now, defaultConfig, entries, inflight, calls, hist,
               pending, served, boot, ticker, appVars>>

\* ------------------------------------------------ SetDefaultLimiterConfig
\* SetDefaultLimiterConfig(config) is entered.
SetBegin(config) ==
  /\ pending.todo = {}
  /\ pending.sets < MaxSets
  /\ pending' = [todo |-> Fields, config |-> config, old |-> defaultConfig,
                 sets |-> pending.sets + 1]
  /\ UNCHANGED <<now, defaultConfig, ipLimiterCache, entries, inflight, sweep,
               calls, hist, served, boot, ticker, appVars>>

\* A SetDefaultLimiterConfig that replaces the rate and burst of the
\* buckets that exist as well.
MutSetWriteRetroactive(field) ==
  /\ field \in pending.todo
  /\ defaultConfig' = [defaultConfig EXCEPT ![field] = pending.config[field]]
  /\ entries' = [e \in DOMAIN entries |->
                   [entries[e] EXCEPT !.limiter.limit = pending.config.RequestPerSecond,
                                      !.limiter.burst = pending.config.Burst]]
  /\ pending' = [pending EXCEPT !.todo = @ \ {field}]
  /\ UNCHANGED <<now, ipLimiterCache, inflight, sweep, calls, hist,
               served, boot, ticker, appVars>>

\* A SetDefaultLimiterConfig that empties the cache, so that every
\* address gets a bucket with the new pair.
MutSetWriteClears(field) ==
  /\ field \in pending.todo
  /\ defaultConfig' = [defaultConfig EXCEPT ![field] = pending.config[field]]
  /\ ipLimiterCache' = [ip \in IPs |-> 0]
  /\ pending' = [pending EXCEPT !.todo = @ \ {field}]
  /\ UNCHANGED <<now, entries, inflight, sweep, calls, hist,
               served, boot, ticker, appVars>>

\* m.defaultConfig = config: a two-word struct assignment with no lock and
\* no atomic, racing with the reads of m.defaultConfig.RequestPerSecond
\* and m.defaultConfig.Burst in GetRateLimiterForIP.  The words are
\* written one at a time, in either order.
SetWrite(field) ==
  /\ field \in pending.todo
  /\ defaultConfig' = [defaultConfig EXCEPT ![field] = pending.config[field]]
  /\ pending' = [pending EXCEPT !.todo = @ \ {field}]
  /\ UNCHANGED <<now, ipLimiterCache, entries, inflight, sweep, calls, hist,
               served, boot, ticker, appVars>>

\* SetDefaultLimiterConfig called with any pair in `configs`.
SetterOf(configs) ==
  \/ \E config \in configs : SetBegin(config)
  \/ \E field \in Fields : SetWrite(field)

\* ------------------------------------------------------------------ main
\* cmd/main.go: manager := ratelimiter.NewRateLimiterManager()
BootManager ==
  /\ boot.path = "cmd" /\ boot.pc = "start"
  /\ boot' = [boot EXCEPT !.pc = "cleaner"]
  /\ UNCHANGED <<now, defaultConfig, ipLimiterCache, entries, inflight, sweep,
               calls, hist, pending, served, ticker, appVars>>

\* cmd/main.go: cleaner := NewRateLimiterCleaner(manager);
\* cleaner.Start(30*time.Minute, 10*time.Minute): the goroutine creates
\* its ticker, which first fires one cleanupInterval from now.
BootCleaner ==
  /\ boot.path = "cmd" /\ boot.pc = "cleaner"
  /\ boot' = [boot EXCEPT !.pc = "handler", !.swept = 1, !.starts = @ + 1]
  /\ ticker' = [running |-> TRUE, c |-> 0, next |-> now + CleanupInterval,
                fires |-> 0, sweeps |-> 0, late |-> FALSE]
  /\ UNCHANGED <<now, defaultConfig, ipLimiterCache, entries, inflight, sweep,
               calls, hist, pending, served, appVars>>

\* cmd/main.go: rateHandler := ratelimiter.NewDefaultRateLimiter(manager);
\* router := internal.SetupRouter(database.DB, rateHandler); startTheServer
BootHandler ==
  /\ boot.path = "cmd" /\ boot.pc = "handler"
  /\ boot' = [boot EXCEPT !.pc = "serve", !.limited = 1]
  /\ UNCHANGED <<now, defaultConfig, ipLimiterCache, entries, inflight, sweep,
               calls, hist, pending, served, ticker, appVars>>

\* cmd/api/main.go: rateHandler := setupRateLimiter(appConfig), which is
\* NewDefaultRateLimiter(requestPerSecond, burst): a manager of its own
\* with the configured pair; then the router and http.ListenAndServe.
\* No RateLimiterCleaner is created.
BootSetup ==
  /\ boot.path = "api" /\ boot.pc = "start"
  /\ defaultConfig' \in Reconfigured
  /\ boot' = [boot EXCEPT !.pc = "serve", !.limited = 1]
  /\ UNCHANGED <<now, ipLimiterCache, entries, inflight, sweep,
               calls, hist, pending, served, ticker, appVars>>

\* The clock advances; a running ticker whose time has come sends on
\* ticker.C, a channel of capacity one: the tick is dropped when the
\* previous one has not been received.
ClockTickTo(limit) ==
  /\ now < limit
  /\ now' = now + 1
  /\ LET late == ticker.late \/ ticker.c = 1 \/ sweep.active \/ inflight # EmptyBag
     IN  ticker' = IF ticker.running /\ now + 1 = ticker.next
                   THEN [ticker EXCEPT !.c = 1, !.fires = @ + 1,
                                       !.next = @ + CleanupInterval, !.late = late]
                   ELSE [ticker EXCEPT !.late = late]
  /\ UNCHANGED <<defaultConfig, ipLimiterCache, entries, inflight, sweep,
               calls, hist, pending, served, boot, appVars>>

\* The clock as far as the other specifications let it run.
ClockTick == ClockTickTo(StartTime + MaxTime)

\* A cleaner goroutine that returns after its first sweep, running the
\* deferred ticker.Stop().
MutReceiveOnce(keys) ==
  /\ ticker.running /\ ticker.c = 1
  /\ ~sweep.active
  /\ Cached \subseteq keys
  /\ ticker' = [ticker EXCEPT !.c = 0, !.sweeps = @ + 1, !.running = FALSE]
  /\ sweep' = IF keys = {} THEN IdleSweep
              ELSE [active |-> TRUE, currentTime |-> now, todo |-> keys]
  /\ UNCHANGED <<now, defaultConfig, ipLimiterCache, entries, inflight,
               calls, hist, pending, served, boot, appVars>>

\* for range ticker.C { c.manager.CleanupInactiveLimiters(expirationDuration) }:
\* the goroutine, back at the head of its loop, receives a tick and the
\* sweep reads the clock and starts its Range.
CleanerReceive(keys) ==
  /\ ticker.running /\ ticker.c = 1
  /\ ~sweep.active
  /\ Cached \subseteq keys
  /\ ticker' = [ticker EXCEPT !.c = 0, !.sweeps = @ + 1]
  /\ sweep' = IF keys = {} THEN IdleSweep
              ELSE [active |-> TRUE, currentTime |-> now, todo |-> keys]
  /\ UNCHANGED <<now, defaultConfig, ipLimiterCache, entries, inflight,
               calls, hist, pending, served, boot, appVars>>

\* ----------------------------------------------------------------- clock
Tick ==
  /\ now < StartTime + MaxTime
  /\ now' = now + 1
  /\ UNCHANGED <<defaultConfig, ipLimiterCache, entries, inflight, sweep, calls, hist,
               pending, served, boot, ticker, appVars>>

\* --------------------------------------------------------- specifications
\* The request goroutines of the clients in `clients`.
Request(clients) ==
  \/ \E ip \in clients : GetBegin(ip)
  \/ \E c \in InFlight : GetLoad(c)
  \/ \E c \in InFlight : GetTouch(c)
  \/ \E c \in InFlight : GetNew(c)
  \/ \E c \in InFlight : GetLoadOrStore(c)
  \/ \E c \in InFlight : LimiterAllow(c)

\* The cleaner goroutine, seen on the keys in `clients`.
CleanerFor(clients) ==
  \/ \E keys \in SUBSET clients : SweepBegin(keys)
  \/ \E key \in clients : SweepVisit(key)

Cleaner == CleanerFor(IPs)

Next == Request(IPs) \/ Cleaner \/ Tick

\* Every client, the cleaner and the clock.
Spec == Init /\ [][Next]_vars

\* One client address: buckets of different addresses share nothing.
OneClient == {CHOOSE ip \in IPs : TRUE}

NextTimed == Request(OneClient) \/ Tick

\* The requests of one client and the clock; the cleaner is not running.
SpecTimed == Init /\ [][NextTimed]_vars

NextRace == Request(OneClient)

\* The requests of one client within one instant; the cleaner is not running.
SpecRace == Init /\ [][NextRace]_vars

\* No lookup is running and no sweep is running.
Quiet == inflight = EmptyBag /\ ~sweep.active

NextQuiet ==
  \/ Quiet /\ \E ip \in IPs : GetBegin(ip)
  \/ \E c \in InFlight : GetLoad(c)
  \/ \E c \in InFlight : GetTouch(c)
  \/ \E c \in InFlight : GetNew(c)
  \/ \E c \in InFlight : GetLoadOrStore(c)
  \/ \E c \in InFlight : LimiterAllow(c)
  \/ Quiet /\ SweepBegin(Cached)
  \/ \E key \in IPs : SweepVisit(key)
  \/ Tick

InitDefault == Init /\ defaultConfig = ManagerDefault


\* Lookups, one at a time, and sweeps that run while no lookup does.
SpecQuiet == InitDefault /\ [][NextQuiet]_vars

NextEvict == Request(OneClient) \/ CleanerFor(OneClient) \/ Tick

\* The requests of one client running against the cleaner.
SpecEvict == InitDefault /\ [][NextEvict]_vars

\* The next statement of call c.
Proceed(c) ==
  GetLoad(c) \/ GetTouch(c) \/ GetNew(c) \/ GetLoadOrStore(c) \/ LimiterAllow(c)

\* Request goroutines are scheduled again and again; nothing is assumed
\* of the cleaner, which may stay inside a sweep for as long as it likes.
RequestFair == WF_vars(\E c \in InFlight : Proceed(c))

\* The requests of one client, one after the other, against the cleaner,
\* under fair scheduling of the request goroutines.
NextFair ==
  \/ \E ip \in OneClient : inflight = EmptyBag /\ GetBegin(ip)
  \/ \E c \in InFlight : GetLoad(c)
  \/ \E c \in InFlight : GetTouch(c)
  \/ \E c \in InFlight : GetNew(c)
  \/ \E c \in InFlight : GetLoadOrStore(c)
  \/ \E c \in InFlight : LimiterAllow(c)
  \/ CleanerFor(OneClient)
  \/ Tick

SpecFair == InitDefault /\ [][NextFair]_vars /\ RequestFair

\* The state NewDefaultRateLimiter leaves when it was handed a pair of
\* `configs`.
InitOf(configs) ==
  /\ now = StartTime
  /\ defaultConfig \in configs
  /\ ipLimiterCache = [ip \in IPs |-> 0]
  /\ entries = <<>>
  /\ inflight = EmptyBag
  /\ sweep = IdleSweep
  /\ calls = 0
  /\ hist = <<>>
  /\ pending = IdleSetter(0)
  /\ served = {}
  /\ boot = NoBoot
  /\ ticker = NoTicker
  /\ AppIdle

\* The pairs with a rate of zero or below and a burst of at least one.
NeverRefills == [RequestPerSecond : (0 - 1)..0, Burst : 1..MaxBurst]

\* The requests of one client and the clock, on buckets whose rate is
\* not positive.
SpecNoRefill == InitOf(NeverRefills) /\ [][NextTimed]_vars

\* The pairs with a burst of zero or below, at any rate.
NeverAdmits == [RequestPerSecond : (0 - 1)..MaxRate, Burst : (0 - 1)..0]

\* The requests of one client and the clock, on buckets whose burst is
\* not positive.
SpecNoAdmit == InitOf(NeverAdmits) /\ [][NextTimed]_vars

NextConfig ==
  \/ inflight = EmptyBag /\ \E ip \in OneClient : GetBegin(ip)
  \/ \E c \in InFlight : GetLoad(c)
  \/ \E c \in InFlight : GetTouch(c)
  \/ \E c \in InFlight : GetNew(c)
  \/ \E c \in InFlight : GetLoadOrStore(c)
  \/ \E c \in InFlight : LimiterAllow(c)
  \/ SetterOf(Reconfigured)
  \/ CleanerFor(OneClient)
  \/ Tick

\* The requests of one client, one at a time, the cleaner, and
\* SetDefaultLimiterConfig called while they run.
SpecConfig == InitDefault /\ [][NextConfig]_vars

\* Two client addresses.
TwoClients == {ip \in IPs : ip <= 2}

NextPair == Request(TwoClients) \/ Tick

\* The requests of two clients and the clock; the cleaner is not running.
SpecPair == InitDefault /\ [][NextPair]_vars

NextServe ==
  \/ \E ip \in OneClient : GetBegin(ip)
  \/ \E c \in InFlight : GetLoad(c)
  \/ \E c \in InFlight : GetTouch(c)
  \/ \E c \in InFlight : GetNew(c)
  \/ \E c \in InFlight : GetLoadOrStore(c)
  \/ \E c \in InFlight : \E mw \in Middlewares : RateLimitMiddleware(mw, c)
  \/ Tick

\* The requests of one client, each through one of the two middlewares.
SpecServe == InitDefault /\ [][NextServe]_vars

\* main() is entered on either startup path.
InitBoot ==
  /\ now = StartTime
  /\ defaultConfig = ManagerDefault
  /\ ipLimiterCache = [ip \in IPs |-> 0]
  /\ entries = <<>>
  /\ inflight = EmptyBag
  /\ sweep = IdleSweep
  /\ calls = 0
  /\ hist = <<>>
  /\ pending = IdleSetter(0)
  /\ served = {}
  /\ boot \in {MainStart(path) : path \in Paths}
  /\ ticker = NoTicker
  /\ AppIdle

\* The server is listening.
Serving == boot.pc = "serve"

NextBoot ==
  \/ BootManager
  \/ BootCleaner
  \/ BootHandler
  \/ BootSetup
  \/ Serving /\ inflight = EmptyBag /\ \E ip \in OneClient : GetBegin(ip)
  \/ \E c \in InFlight : GetLoad(c)
  \/ \E c \in InFlight : GetTouch(c)
  \/ \E c \in InFlight : GetNew(c)
  \/ \E c \in InFlight : GetLoadOrStore(c)
  \/ \E c \in InFlight : LimiterAllow(c)
  \/ \E keys \in SUBSET OneClient : CleanerReceive(keys)
  \/ \E key \in OneClient : SweepVisit(key)
  \/ ClockTick

\* The cleaner goroutine is scheduled again and again: a step it can take
\* is eventually taken.
CleanerFair ==
  /\ WF_vars(\E keys \in SUBSET OneClient : CleanerReceive(keys))
  /\ WF_vars(\E key \in OneClient : SweepVisit(key))

\* A program from main() on: startup, then the requests of one client,
\* the ticker and the cleaner goroutine if one was started.
SpecBoot == InitBoot /\ [][NextBoot]_vars /\ CleanerFair

\* Long enough for an entry to outlive its deadline by a tick.
ExpiryHorizon == StartTime + IdleTicks + CleanupInterval + 1

NextExpiry ==
  \/ BootManager
  \/ BootCleaner
  \/ BootHandler
  \/ BootSetup
  \/ Serving /\ inflight = EmptyBag /\ \E ip \in OneClient : GetBegin(ip)
  \/ \E c \in InFlight : GetLoad(c)
  \/ \E c \in InFlight : GetTouch(c)
  \/ \E c \in InFlight : GetNew(c)
  \/ \E c \in InFlight : GetLoadOrStore(c)
  \/ \E c \in InFlight : LimiterAllow(c)
  \/ \E keys \in SUBSET OneClient : CleanerReceive(keys)
  \/ \E key \in OneClient : SweepVisit(key)
  \/ ClockTickTo(ExpiryHorizon)

\* A program from main() on, with the clock running past the deadline
\* of an entry stored at startup.
SpecExpiry == InitBoot /\ [][NextExpiry]_vars

\* ------------------------------------------------------------ properties
Entries == 1..Len(entries)

\* The entries ever stored in the cache for ip.
EntriesOf(ip) == {e \in Entries : entries[e].ip = ip}

\* The calls that GetRateLimiterForIP has answered and that have not yet
\* asked the limiter they were given.
Returned == {c \in InFlight : c.pc = "allow"}

\* A call that went through rate.NewLimiter: it found no entry at Load.
Built(c) == c.newLimiter # NoLimiter

\* The token count an answered call left behind.
Left(h) == IF h.ok THEN h.pre - TokenUnit ELSE h.pre

\* The number of admitted calls among the first n of a bucket's history.
RECURSIVE AdmittedIn(_, _)
AdmittedIn(hs, n) ==
  IF n = 0 THEN 0 ELSE AdmittedIn(hs, n - 1) + (IF hs[n].ok THEN 1 ELSE 0)

\* C1: while the cleaner is not running, every call of GetRateLimiterForIP
\* for an address is answered with the limiter of the one entry the cache
\* holds for that address, nothing else was ever stored for it, and so a
\* limiter built by a caller that lost the LoadOrStore race reaches no one.
C1_OneLimiterPerIP ==
  \A c \in Returned :
    /\ c.limiter # 0
    /\ c.limiter = ipLimiterCache[c.ipAddress]
    /\ EntriesOf(c.ipAddress) = {c.limiter}
    /\ \A d \in Returned : d.ipAddress = c.ipAddress => d.limiter = c.limiter

\* C1 witness: two callers both built a limiter for the same unseen
\* address, and both have been answered.
C1_Witness ==
  \E c \in Returned :
    /\ Built(c)
    /\ \/ CopiesIn(c, inflight) > 1
       \/ \E d \in Returned \ {c} : Built(d) /\ d.ipAddress = c.ipAddress

\* C2: once N calls of Allow(ip) for one unseen address, all within one
\* instant, have returned, exactly min(N, burst) of them were admitted
\* (burst >= 0: a count of admissions), in every interleaving.
C2_AdmitsMinOfCallsAndBurst ==
  (defaultConfig.Burst >= 0 /\ inflight = EmptyBag) =>
    \A ip \in OneClient :
      /\ Cardinality(EntriesOf(ip)) <= 1
      /\ calls = 0 => EntriesOf(ip) = {}
      /\ \A e \in EntriesOf(ip) :
           /\ Len(hist[e]) = calls
           /\ AdmittedIn(hist[e], calls) = Min(calls, defaultConfig.Burst)

\* C2 witness: more calls than the burst raced on the unseen address (one
\* was answered while another waited at the same bucket), and all have
\* returned.
C2_Witness ==
  /\ inflight = EmptyBag
  /\ defaultConfig.Burst >= 1
  /\ calls > defaultConfig.Burst
  /\ \E e \in Entries : \E k \in 1..Len(hist[e]) : hist[e][k].rivals >= 1

\* C3: the calls of one bucket are serialized.  When a call finds exactly
\* one token and the next call on the bucket comes at the same instant,
\* the first is admitted, the second is rejected, and the second finds
\* (and leaves) a count of zero.
C3_LastTokenAdmitsOne ==
  \A e \in Entries : \A k \in 1..Len(hist[e]) :
    (/\ k + 1 <= Len(hist[e])
     /\ hist[e][k].pre = TokenUnit
     /\ hist[e][k + 1].t = hist[e][k].t)
    => /\ hist[e][k].ok
       /\ ~hist[e][k + 1].ok
       /\ hist[e][k + 1].pre = 0
       /\ Left(hist[e][k + 1]) = 0

\* C3 witness: one token was left, two calls were waiting at the bucket at
\* the same instant, and both have been answered.
C3_Witness ==
  \E e \in Entries : \E k \in 1..Len(hist[e]) :
    /\ k + 1 <= Len(hist[e])
    /\ hist[e][k].pre = TokenUnit
    /\ hist[e][k].rivals >= 1
    /\ hist[e][k + 1].t = hist[e][k].t
    /\ ~hist[e][k + 1].ok

\* True when the first k calls of a bucket all came at one instant.
SameInstant(hs, k) == \A j \in 1..k : hs[j].t = hs[1].t

\* C4: on a bucket built with burst B >= 1, as long as no time elapses,
\* call k is admitted exactly when k <= B: the first B calls return true,
\* call B+1 (and every later one) returns false.
C4_FirstBurstCallsAdmitted ==
  defaultConfig.Burst >= 1 =>
    \A e \in Entries : \A k \in 1..Len(hist[e]) :
      SameInstant(hist[e], k) => (hist[e][k].ok <=> k <= defaultConfig.Burst)

\* C4 witness: a bucket answered B+1 calls within one instant and rejected
\* the last.
C4_Witness ==
  /\ defaultConfig.Burst >= 1
  /\ \E e \in Entries :
       /\ Len(hist[e]) = defaultConfig.Burst + 1
       /\ SameInstant(hist[e], defaultConfig.Burst + 1)
       /\ hist[e][defaultConfig.Burst].ok
       /\ ~hist[e][defaultConfig.Burst + 1].ok

\* A call left the bucket exhausted: tokens were taken from it and less
\* than one whole token remains after the call.
Exhausted(hs, k) ==
  /\ Left(hs[k]) < TokenUnit
  /\ \E j \in 1..k : hs[j].ok

\* C5: a bucket refilling `limit` units a tick gains one token in
\* TokenUnit / limit ticks (1/R).  When a call leaves the bucket exhausted
\* and the next call comes exactly 1/R later, that call is admitted, and a
\* call immediately after it is rejected.
C5_RefillOneToken ==
  \A e \in Entries :
    LET lim == entries[e].limiter
        hs  == hist[e]
    IN  (lim.limit > 0 /\ TokenUnit % lim.limit = 0) =>
          \A k \in 1..Len(hs) :
            (/\ k + 1 <= Len(hs)
             /\ Exhausted(hs, k)
             /\ hs[k + 1].t = hs[k].t + TokenUnit \div lim.limit)
            => /\ hs[k + 1].ok
               /\ (k + 2 <= Len(hs) /\ hs[k + 2].t = hs[k + 1].t)
                    => ~hs[k + 2].ok

\* C5 witness: a bucket was exhausted, 1/R later a call was admitted and a
\* call right after it was answered.
C5_Witness ==
  \E e \in Entries :
    LET lim == entries[e].limiter
        hs  == hist[e]
    IN  /\ lim.limit > 0 /\ TokenUnit % lim.limit = 0
        /\ \E k \in 1..Len(hs) :
             /\ k + 2 <= Len(hs)
             /\ Exhausted(hs, k)
             /\ hs[k + 1].t = hs[k].t + TokenUnit \div lim.limit
             /\ hs[k + 1].ok
             /\ hs[k + 2].t = hs[k + 1].t

\* The instants the clock can still show.
Later == now..(StartTime + MaxTime)

\* C6: a step in which a bucket answers false leaves the bucket with the
\* count it would have had without the call, now and at every later
\* instant.
C6_RejectConsumesNothing ==
  [][\A e \in Entries :
       (/\ Len(hist'[e]) = Len(hist[e]) + 1
        /\ ~hist'[e][Len(hist'[e])].ok)
       => \A t \in Later :
            Advance(entries'[e].limiter, t) = Advance(entries[e].limiter, t)]_vars

\* C6 witness: a call was rejected on a bucket holding part of a token,
\* and the next call on the bucket was admitted.
C6_Witness ==
  \E e \in Entries : \E k \in 1..Len(hist[e]) :
    /\ k + 1 <= Len(hist[e])
    /\ ~hist[e][k].ok
    /\ 0 < hist[e][k].pre
    /\ hist[e][k + 1].ok

\* Every bucket built so far: the stored ones and the ones callers hold
\* before LoadOrStore.
Buckets ==
  {entries[e].limiter : e \in Entries}
    \cup {c.newLimiter : c \in {d \in InFlight : Built(d)}}

\* C7 as stated: every bucket's count is between zero and its burst.
C7_TokensWithinZeroAndBurst ==
  \A lim \in Buckets :
    /\ 0 <= lim.tokens /\ lim.tokens <= lim.burst * TokenUnit
    /\ 0 <= Advance(lim, now) /\ Advance(lim, now) <= lim.burst * TokenUnit

\* C7, amended: every bucket's count, stored, refilled to the present and
\* as each call found and left it, is never above the burst, and is never
\* below zero when the burst is not negative.
C7_TokensWithinBurst ==
  /\ \A lim \in Buckets :
       /\ lim.tokens <= lim.burst * TokenUnit
       /\ Advance(lim, now) <= lim.burst * TokenUnit
       /\ lim.burst >= 0 => (0 <= lim.tokens /\ 0 <= Advance(lim, now))
  /\ \A e \in Entries : \A k \in 1..Len(hist[e]) :
       /\ hist[e][k].pre <= entries[e].limiter.burst * TokenUnit
       /\ entries[e].limiter.burst >= 0 => 0 <= Left(hist[e][k])

\* C7 witness: a bucket was drained to zero and has since been idle long
\* enough for an uncapped refill to pass the burst.
C7_Witness ==
  \E e \in Entries :
    LET lim == entries[e].limiter
    IN  /\ lim.burst >= 1
        /\ Len(hist[e]) >= 1
        /\ lim.tokens = 0
        /\ lim.tokens + (now - lim.last) * lim.limit > lim.burst * TokenUnit

\* The calls admitted at instant t by the buckets in es.
RECURSIVE AdmittedAt(_, _)
AdmittedAt(es, t) ==
  IF es = {} THEN 0
  ELSE LET e == CHOOSE x \in es : TRUE
           n == Cardinality({k \in 1..Len(hist[e]) :
                               hist[e][k].ok /\ hist[e][k].t = t})
       IN  n + AdmittedAt(es \ {e}, t)

\* The instants the clock has shown.
Past == StartTime..now

\* C8: for every address and every instant, the calls admitted at that
\* instant, over all buckets the address ever had, are at most the burst.
C8_BurstBoundsAdmissions ==
  \A ip \in IPs : \A t \in Past :
    AdmittedAt(EntriesOf(ip), t) <= Max(defaultConfig.Burst, 0)

\* C9: in every step, an entry that is and stays in the cache does not
\* get an earlier lastSeen.
C9_LastSeenMonotonic ==
  [][\A e \in Entries :
       (/\ ipLimiterCache[entries[e].ip] = e
        /\ ipLimiterCache'[entries[e].ip] = e)
       => entries'[e].lastSeen >= entries[e].lastSeen]_vars

\* C10: in every step in which GetRateLimiterForIP returns, the entry of
\* the limiter it returns has the call's time as lastSeen.
C10_LookupSetsLastSeen ==
  [][\A d \in BagToSet(inflight') :
       (/\ d.pc = "allow"
        /\ CopiesIn(d, inflight') > CopiesIn(d, inflight))
       => entries'[d.limiter].lastSeen = d.currentTime]_vars

\* The Range callback of this step is the one for `key`.
Visited(key) == key \in sweep.todo /\ key \notin sweep'.todo

\* C11: with no lookup running, each step of a sweep that read the clock
\* at currentTime removes the visited key exactly when its entry has
\* currentTime - lastSeen > expirationDuration; an entry idle for exactly
\* expirationDuration or less stays, no other key changes, and no entry's
\* limiter or lastSeen changes.
C11_SweepRemovesExactlyExpired ==
  [][sweep.active =>
       /\ entries' = entries
       /\ \A key \in IPs :
            LET record == ipLimiterCache[key]
            IN  ipLimiterCache'[key] =
                  IF /\ Visited(key)
                     /\ record # 0
                     /\ sweep.currentTime - entries[record].lastSeen > IdleTicks
                  THEN 0 ELSE record]_vars

\* C11 witness: a sweep is under way that has visited and kept an entry
\* idle for exactly expirationDuration, while an older entry of another
\* address is in the cache to be removed.
C11_Witness ==
  /\ sweep.active
  /\ inflight = EmptyBag
  /\ \E kept \in IPs \ sweep.todo :
       /\ ipLimiterCache[kept] # 0
       /\ sweep.currentTime - entries[ipLimiterCache[kept]].lastSeen = IdleTicks
  /\ \E old \in sweep.todo :
       /\ ipLimiterCache[old] # 0
       /\ sweep.currentTime - entries[ipLimiterCache[old]].lastSeen > IdleTicks

\* C12: while lookups race with a sweep, every value in the cache is an
\* entry stored for that key, every record a lookup loaded and every
\* limiter a lookup returned belongs to such an entry and is a real bucket
\* (no type assertion fails, nothing is nil), and every callback the sweep
\* still has to run can run.
C12_CacheSoundUnderSweep ==
  /\ \A ip \in IPs :
       /\ ipLimiterCache[ip] \in 0..Len(entries)
       /\ ipLimiterCache[ip] # 0 => entries[ipLimiterCache[ip]].ip = ip
  /\ \A c \in InFlight :
       /\ c.pc = "found" => c.record \in EntriesOf(c.ipAddress)
       /\ c.pc = "allow" =>
            /\ c.limiter \in EntriesOf(c.ipAddress)
            /\ entries[c.limiter].limiter # NoLimiter
  /\ sweep.active =>
       /\ sweep.todo # {}
       /\ \A key \in sweep.todo : ENABLED SweepVisit(key)

\* C12 witness: a lookup returned the limiter of an entry that a sweep has
\* since removed, and the entry has been recreated.
C12_Witness ==
  \E c \in Returned :
    /\ ipLimiterCache[c.ipAddress] # 0
    /\ ipLimiterCache[c.ipAddress] # c.limiter

\* The calls that ran rate.NewLimiter in this step.
JustBuilt ==
  {d \in BagToSet(inflight') :
     d.pc = "store" /\ CopiesIn(d, inflight') > CopiesIn(d, inflight)}

\* C13: a bucket built while SetDefaultLimiterConfig(config) runs has the
\* rate and burst of the whole pair that was there before or of the whole
\* new pair.
C13_NoTornConfig ==
  [][\A d \in JustBuilt :
       pending.todo # {} =>
         d.newLimiter \in {NewLimiter(pending.old), NewLimiter(pending.config)}]_vars

\* C14: no step changes the rate or the burst of a bucket that exists, and
\* a bucket built after SetDefaultLimiterConfig(config) returned has
\* config's rate and burst.
C14_ConfigOnlyForNewBuckets ==
  [][/\ \A e \in Entries :
          /\ entries'[e].limiter.limit = entries[e].limiter.limit
          /\ entries'[e].limiter.burst = entries[e].limiter.burst
     /\ \A d \in JustBuilt :
          (pending.todo = {} /\ pending.sets > 0) =>
            /\ d.newLimiter.limit = pending.config.RequestPerSecond
            /\ d.newLimiter.burst = pending.config.Burst]_vars

\* C14 witness: SetDefaultLimiterConfig returned; a bucket built before it
\* keeps the old pair, and the same address, evicted and recreated, has a
\* bucket with the new pair.
C14_Witness ==
  /\ pending.todo = {} /\ pending.sets > 0
  /\ pending.config.RequestPerSecond # pending.old.RequestPerSecond
  /\ pending.config.Burst # pending.old.Burst
  /\ \E e, f \in Entries :
       /\ e < f /\ entries[e].ip = entries[f].ip
       /\ entries[e].limiter.limit = pending.old.RequestPerSecond
       /\ entries[e].limiter.burst = pending.old.Burst
       /\ entries[f].limiter.limit = pending.config.RequestPerSecond
       /\ entries[f].limiter.burst = pending.config.Burst

EntriesAfter(b) == {e \in 1..Len(entries') : entries'[e].ip = b}

\* The step changes something of address b: its key, one of its entries
\* (limiter or lastSeen), or what one of its buckets has answered.
Touches(b) ==
  \/ ipLimiterCache'[b] # ipLimiterCache[b]
  \/ EntriesAfter(b) # EntriesOf(b)
  \/ \E e \in EntriesOf(b) : entries'[e] # entries[e] \/ hist'[e] # hist[e]

\* C15: a step that changes the key, an entry or a bucket of address b is
\* a step of a call for b, never of a call for another address; distinct
\* addresses hold distinct buckets, a call is handed a bucket of its own
\* address, and whatever the other address does, a bucket of burst B
\* admits its first B same-instant calls and rejects the next.
C15_AddressesIndependent ==
  [][/\ \A b \in IPs :
          Touches(b) =>
            \E c \in InFlight :
              c.ipAddress = b /\ CopiesIn(c, inflight') < CopiesIn(c, inflight)
     /\ \A a, b \in IPs :
          (a # b /\ ipLimiterCache[a] # 0) => ipLimiterCache[a] # ipLimiterCache[b]
     /\ \A c \in Returned : entries[c.limiter].ip = c.ipAddress
     /\ \A e \in Entries : \A k \in 1..Len(hist[e]) :
          SameInstant(hist[e], k) =>
            (hist[e][k].ok <=> k <= entries[e].limiter.burst)]_vars

\* C15 witness: address a has exhausted its bucket and been rejected, and
\* after that, at the same instant, address b was admitted by its own.
C15_Witness ==
  \E e, f \in Entries :
    /\ entries[e].ip # entries[f].ip
    /\ Len(hist[e]) >= 2 /\ ~hist[e][Len(hist[e])].ok
    /\ Len(hist[f]) >= 1 /\ hist[f][1].ok
    /\ hist[f][1].t = hist[e][Len(hist[e])].t
    /\ e < f

\* C17: every response of a rate-limit middleware to a rejected request
\* has status 429 and did not reach the next handler; every admitted
\* request reached the next handler exactly once and got no 429.
C17_RejectIs429 ==
  \A r \in served :
    /\ ~r.allowed => (r.status = StatusTooManyRequests /\ r.next = 0)
    /\ r.allowed => (r.next = 1 /\ r.status # StatusTooManyRequests)

\* C18: once the server is listening, the cleaner has been started
\* exactly once and sweeps the manager the request limiter uses.
C18_SweeperStartedOnce ==
  Serving => (boot.starts = 1 /\ boot.swept = boot.limited)

\* C19 as stated: one sweep per elapsed cleanupInterval, counting the tick
\* that waits in the channel.
C19_OncePerInterval ==
  ticker.running => ticker.fires = ticker.sweeps + ticker.c

\* C19, amended: once started the loop never ends; a sweep is invoked at
\* most once per elapsed cleanupInterval; and every elapsed interval is
\* followed by an invocation, the ticks that find the previous tick still
\* unreceived being dropped.
C19_SweepsKeepComing ==
  /\ [](ticker.running => [](ticker.running))
  /\ [](ticker.sweeps + ticker.c <= ticker.fires)
  /\ \A n \in 1..MaxTime : (ticker.fires = n) ~> (ticker.sweeps >= 1 /\ ticker.c = 0)

\* C19 witness: two intervals elapsed before the cleaner took the first
\* tick; the second tick was dropped and one sweep was invoked.
C19_Witness ==
  /\ ticker.running
  /\ ticker.fires >= 2
  /\ ticker.sweeps >= 1
  /\ ticker.fires > ticker.sweeps + ticker.c

\* The Allow(ip) calls that have returned.
RECURSIVE Completed(_)
Completed(n) == IF n = 0 THEN 0 ELSE Len(hist[n]) + Completed(n - 1)

\* C20: every call in flight can take its next step in every state,
\* whether or not a sweep is under way, and under fair scheduling of the
\* request goroutines every call that was started returns, even if the
\* sweep never finishes its pass.
C20_SweepNeverBlocksRequests ==
  /\ [](\A c \in InFlight : ENABLED Proceed(c))
  /\ \A n \in 1..MaxCalls : (calls >= n) ~> (Completed(Len(hist)) >= n)

\* C20 witness: a sweep is in the middle of its pass and a call has been
\* answered after the sweep began.
C20_Witness ==
  /\ sweep.active
  /\ \E e \in Entries : \E k \in 1..Len(hist[e]) : hist[e][k].t > sweep.currentTime

\* C21: under a configured rate of zero or below and a burst B >= 1 a
\* bucket never refills: each call finds the B tokens less one for every
\* call admitted before it, whatever time has passed, so the bucket admits
\* at most B calls in all and rejects every call after the B-th admission.
C21_ZeroRateNeverRefills ==
  (defaultConfig.RequestPerSecond <= 0 /\ defaultConfig.Burst >= 1) =>
    \A e \in Entries :
      LET hs == hist[e]
      IN  /\ AdmittedIn(hs, Len(hs)) <= defaultConfig.Burst
          /\ \A k \in 1..Len(hs) :
               /\ hs[k].pre = (defaultConfig.Burst - AdmittedIn(hs, k - 1)) * TokenUnit
               /\ AdmittedIn(hs, k - 1) >= defaultConfig.Burst => ~hs[k].ok

\* C21 witness: under a rate of zero or below a bucket admitted its B
\* calls and, after time had passed, rejected a call.
C21_Witness ==
  /\ defaultConfig.RequestPerSecond <= 0
  /\ defaultConfig.Burst >= 1
  /\ \E e \in Entries : \E k \in 2..Len(hist[e]) :
       /\ AdmittedIn(hist[e], k - 1) = defaultConfig.Burst
       /\ hist[e][k].t > hist[e][k - 1].t
       /\ ~hist[e][k].ok

\* C22: under a configured burst of zero or below no bucket admits
\* anything: every call is rejected, at any rate and after any time.
C22_NoBurstNeverAdmits ==
  defaultConfig.Burst <= 0 =>
    \A e \in Entries : \A k \in 1..Len(hist[e]) : ~hist[e][k].ok

\* C22 witness: under a burst of zero or below and a positive rate a
\* bucket rejected a call when it was built and another after time passed.
C22_Witness ==
  /\ defaultConfig.Burst <= 0
  /\ defaultConfig.RequestPerSecond > 0
  /\ \E e \in Entries :
       /\ Len(hist[e]) >= 2
       /\ hist[e][Len(hist[e])].t > hist[e][1].t
       /\ ~hist[e][1].ok /\ ~hist[e][Len(hist[e])].ok

\* --------------------------------------------------------- AuthMiddleware
\* A URL path is the sequence of its slashes and segment names:
\* /comments/newComments is <<"/", "comments", "/", "newComments">>.
Segments == {"login", "register", "css", "js", "assets", "comments", "newComments"}

\* The paths a request can carry: they start with a slash, and slashes
\* and segment names alternate.
URLPaths ==
  {p \in UNION {[1..n -> Segments \cup {"/"}] : n \in 1..MaxPathLen} :
     /\ p[1] = "/"
     /\ \A i \in 1..(Len(p) - 1) : (p[i] = "/") # (p[i + 1] = "/")}

\* r.Cookie("token"): no such cookie, one with an empty value, one whose
\* value securityAuth.ValidateToken rejects, one it accepts.
Cookies == {"absent", "empty", "invalid", "valid"}

StatusOK == 200
StatusUnauthorized == 401

\* DefaultAuthOptions().ExcludedPaths
DefaultAuthOptions ==
  <<(<<"/">>), <<"/", "login">>, <<"/", "register">>,
    <<"/", "css", "/">>, <<"/", "js", "/">>, <<"/", "assets", "/">>>>

\* The test of the loop over options.ExcludedPaths for one entry:
\* r.URL.Path == path, or path ends in '/' and r.URL.Path starts with it.
ExcludedBy(path, urlPath) ==
  \/ urlPath = path
  \/ /\ path[Len(path)] = "/"
     /\ Len(urlPath) >= Len(path)
     /\ SubSeq(urlPath, 1, Len(path)) = path

\* The response of the handler AuthMiddleware(options)(next) and whether
\* it called next; next answers 200.
AuthResponse(options, urlPath, tokenCookie) ==
  IF \E i \in 1..Len(options) : ExcludedBy(options[i], urlPath)
  THEN [status |-> StatusOK, next |-> 1]
  ELSE IF tokenCookie \in {"absent", "empty"}
       THEN [status |-> StatusUnauthorized, next |-> 0]
       ELSE IF tokenCookie = "invalid"
            THEN [status |-> StatusUnauthorized, next |-> 0]
            ELSE [status |-> StatusOK, next |-> 1]

\* One request goes through AuthMiddleware(DefaultAuthOptions()).
AuthMiddleware(urlPath, tokenCookie) ==
  /\ LET resp == AuthResponse(DefaultAuthOptions, urlPath, tokenCookie)
     IN  request' = [path |-> urlPath, cookie |-> tokenCookie,
                     status |-> resp.status, next |-> resp.next]
  /\ UNCHANGED <<limiterVars, register, users, settings, password, comment, cookie, manager, route>>

NextAuth == \E urlPath \in URLPaths : \E tokenCookie \in Cookies : AuthMiddleware(urlPath, tokenCookie)

\* Requests, one after the other, through the authentication middleware
\* as SetupRoutes installs it.
SpecAuth == InitDefault /\ [][NextAuth]_vars

\* The exact paths and the directories that DefaultAuthOptions is meant
\* to exclude: an entry longer than the root that ends in a slash is a
\* directory, every entry is an exact path.
ExcludedDirs ==
  {DefaultAuthOptions[i] : i \in {j \in 1..Len(DefaultAuthOptions) :
      Len(DefaultAuthOptions[j]) > 1 /\ DefaultAuthOptions[j][Len(DefaultAuthOptions[j])] = "/"}}

Protected(urlPath) ==
  /\ \A i \in 1..Len(DefaultAuthOptions) : urlPath # DefaultAuthOptions[i]
  /\ \A d \in ExcludedDirs : ~(Len(urlPath) >= Len(d) /\ SubSeq(urlPath, 1, Len(d)) = d)

\* C23: with DefaultAuthOptions, a request whose path is neither an
\* excluded exact path nor under an excluded directory (such as
\* /comments/newComments) and whose token cookie is absent, empty or
\* invalid is answered 401, and the next handler is not called.
C23_UnauthenticatedGets401 ==
  (request # NoRequest /\ Protected(request.path) /\ request.cookie # "valid") =>
    (request.status = StatusUnauthorized /\ request.next = 0)

\* ------------------------------------------------------- Chain and Apply
\* The middlewares, and the handler at the end of every chain.
Wrappers == 1..NumMiddlewares
Handler == 0

\* The lists of middlewares handed to Chain, Apply and AddGlobal.
Lists == UNION {[1..n -> Wrappers] : n \in 0..MaxChain}

\* middlewares[i](next): a handler that enters middleware m and then
\* calls next.  A handler is the sequence of what it enters.
Wrap(m, next) == <<m>> \o next

\* A Chain whose loop runs from the first middleware to the last.
RECURSIVE MutChainLoopUp(_, _, _)
MutChainLoopUp(middlewares, i, next) ==
  IF i > Len(middlewares) THEN next
  ELSE MutChainLoopUp(middlewares, i + 1, Wrap(middlewares[i], next))

MutChainForward(middlewares, next) == MutChainLoopUp(middlewares, 1, next)

\* for i := len(middlewares) - 1; i >= 0; i-- { next = middlewares[i](next) }
RECURSIVE ChainLoop(_, _, _)
ChainLoop(middlewares, i, next) ==
  IF i < 1 THEN next
  ELSE ChainLoop(middlewares, i - 1, Wrap(middlewares[i], next))

\* Chain(middlewares...)(next)
Chain(middlewares, next) == ChainLoop(middlewares, Len(middlewares), next)

\* m.globalMiddlewares = append(m.globalMiddlewares, middleware)
AddGlobal(m) ==
  /\ Len(manager.globalMiddlewares) < MaxChain
  /\ manager' = [manager EXCEPT !.globalMiddlewares = Append(@, m)]
  /\ UNCHANGED <<limiterVars, register, users, settings, password, comment, cookie, request, route>>

\* A route is registered with Chain(middlewares...)(handler).
ChainRoute(middlewares) ==
  /\ route = NoRoute
  /\ route' = [globals |-> <<>>, listed |-> middlewares,
               handler |-> Chain(middlewares, <<Handler>>),
               todo |-> <<>>, trace |-> <<>>]
  /\ UNCHANGED <<limiterVars, register, users, settings, password, comment, cookie, request, manager>>

\* A route is registered with m.Apply(handler, middlewares...):
\* Chain(append(m.globalMiddlewares, middlewares...)...)(handler).
Apply(middlewares) ==
  /\ route = NoRoute
  /\ route' = [globals |-> manager.globalMiddlewares, listed |-> middlewares,
               handler |-> Chain(manager.globalMiddlewares \o middlewares, <<Handler>>),
               todo |-> <<>>, trace |-> <<>>]
  /\ UNCHANGED <<limiterVars, register, users, settings, password, comment, cookie, request, manager>>

\* A request arrives at the route: ServeHTTP of the built handler.
ServeHTTP ==
  /\ route.handler # <<>>
  /\ route.todo = <<>>
  /\ route' = [route EXCEPT !.todo = route.handler, !.trace = <<>>]
  /\ UNCHANGED <<limiterVars, register, users, settings, password, comment, cookie, request, manager>>

\* The request enters the next layer: a middleware, which calls its
\* next, or the handler.
Enter ==
  /\ route.todo # <<>>
  /\ route' = [route EXCEPT !.todo = Tail(@), !.trace = Append(@, Head(route.todo))]
  /\ UNCHANGED <<limiterVars, register, users, settings, password, comment, cookie, request, manager>>

NextChain ==
  \/ \E m \in Wrappers : AddGlobal(m)
  \/ \E middlewares \in Lists : ChainRoute(middlewares)
  \/ \E middlewares \in Lists : Apply(middlewares)
  \/ ServeHTTP
  \/ Enter

\* Global middlewares are registered, one route is built with Chain or
\* with Apply, and requests run through it, one after the other.
SpecChain == InitDefault /\ [][NextChain]_vars

\* The order in which a request through the route is to meet things:
\* the global middlewares the route was built with in registration
\* order, the listed middlewares in listed order, then the handler.
Expected == route.globals \o route.listed \o <<Handler>>

\* C24: a request through Chain(m1, ..., mn)(h) enters m1 first, then
\* each next middleware in the listed order, and h last; through
\* Apply(h, s1..sk) it enters every global middleware, in registration
\* order, before every route-specific one.
C24_ChainRunsInListedOrder ==
  /\ Len(route.trace) <= Len(Expected)
  /\ route.trace = SubSeq(Expected, 1, Len(route.trace))
  /\ (route.trace # <<>> /\ route.todo = <<>>) => route.trace = Expected

\* C24 witness: a request ran through a route built by Apply from a
\* global middleware and two route-specific ones, all different, down to
\* the handler.
C24_Witness ==
  /\ route.todo = <<>>
  /\ Len(route.globals) >= 1
  /\ Len(route.listed) >= 2
  /\ Len(route.trace) = Len(route.globals) + Len(route.listed) + 1
  /\ \A i, j \in 1..Len(route.trace) : i # j => route.trace[i] # route.trace[j]

\* ---------------------------------------------------------- CookieConfig
\* The fields an option sets, and the values the options carry.  MaxAge
\* is counted in hours.
OptionValues ==
  [Value    |-> {"custom-value", "other-value"},
   MaxAge   |-> {1, 0 - 1},
   HttpOnly |-> BOOLEAN,
   Path     |-> {"/custom", "/"},
   Secure   |-> BOOLEAN,
   SameSite |-> {"Strict", "Lax"}]

\* WithValue(v), WithMaxAge(d), WithHttpOnly(b), WithPath(p),
\* WithSecure(b), WithSameSite(s): the field and what to put there.
With(field, value) == [field |-> field, value |-> value]

CookieOption ==
  UNION {{With(field, value) : value \in OptionValues[field]} : field \in DOMAIN OptionValues}

\* The lists of options a caller passes.
OptionLists == UNION {[1..n -> CookieOption] : n \in 0..MaxOptions}

\* option(&config)
SetField(config, option) == [config EXCEPT ![option.field] = option.value]

\* A loop over the options in which a field, once set, is not set again.
RECURSIVE MutApplyFirstWins(_, _)
MutApplyFirstWins(config, options) ==
  IF options = <<>> THEN config
  ELSE SetField(MutApplyFirstWins(config, Tail(options)), Head(options))

\* for _, option := range options { option(&config) }
RECURSIVE ApplyOptions(_, _)
ApplyOptions(config, options) ==
  IF options = <<>> THEN config
  ELSE ApplyOptions(SetField(config, Head(options)), Tail(options))

\* The defaults of NewCookieConfig(name).
DefaultCookieConfig(name) ==
  [Name |-> name, Value |-> "", MaxAge |-> 24, HttpOnly |-> TRUE, Path |-> "/",
   Secure |-> FALSE, SameSite |-> "Lax"]

\* NewCookieConfig(name, options...)
CookieConfigOf(name, options) == ApplyOptions(DefaultCookieConfig(name), options)

\* NewAuthCookieConfig(token, isProduction, options...)
AuthCookieConfigOf(token, isProduction, options) ==
  LET defaultOptions ==
        <<With("Value", token), With("MaxAge", 12), With("Path", "/"),
          With("HttpOnly", TRUE), With("SameSite", "Lax")>>
        \o (IF isProduction THEN <<With("Secure", TRUE)>> ELSE <<>>)
  IN  CookieConfigOf("token", defaultOptions \o options)

\* A caller builds a configuration with NewCookieConfig.
NewCookieConfig(options) ==
  /\ cookie = NoCookie
  /\ cookie' = [built |-> "plain", isProduction |-> FALSE, options |-> options,
                config |-> CookieConfigOf("test-cookie", options)]
  /\ UNCHANGED <<limiterVars, register, users, settings, password, comment, request, manager, route>>

\* A caller builds a configuration with NewAuthCookieConfig.
NewAuthCookieConfig(isProduction, options) ==
  /\ cookie = NoCookie
  /\ cookie' = [built |-> "auth", isProduction |-> isProduction, options |-> options,
                config |-> AuthCookieConfigOf("test-token", isProduction, options)]
  /\ UNCHANGED <<limiterVars, register, users, settings, password, comment, request, manager, route>>

NextCookie ==
  \/ \E options \in OptionLists : NewCookieConfig(options)
  \/ \E isProduction \in BOOLEAN : \E options \in OptionLists :
       NewAuthCookieConfig(isProduction, options)

\* One cookie configuration is built, from any list of options.
SpecCookie == InitDefault /\ [][NextCookie]_vars

\* The positions of the options in the list that set the field.
Setting(options, field) == {i \in 1..Len(options) : options[i].field = field}

\* The value of the last option in the list that sets the field, or
\* `default` if none does.
LastSet(options, field, default) ==
  IF Setting(options, field) = {} THEN default
  ELSE options[CHOOSE i \in Setting(options, field) :
                 \A j \in Setting(options, field) : j <= i].value

\* C25: NewCookieConfig gives every field the value of the last option
\* that sets it, and the default (Path "/", MaxAge 24h, HttpOnly true,
\* Secure false, SameSite Lax, no value) where no option does.
\* NewAuthCookieConfig does the same over the defaults Name "token", the
\* token as value, MaxAge 12h, Path "/", HttpOnly true, SameSite Lax and
\* Secure = isProduction: Secure is isProduction unless the caller
\* passes a Secure option, whose last value then wins.
C25_LastOptionWins ==
  /\ cookie.built = "plain" =>
       /\ cookie.config.Name = "test-cookie"
       /\ cookie.config.Value = LastSet(cookie.options, "Value", "")
       /\ cookie.config.Path = LastSet(cookie.options, "Path", "/")
       /\ cookie.config.MaxAge = LastSet(cookie.options, "MaxAge", 24)
       /\ cookie.config.HttpOnly = LastSet(cookie.options, "HttpOnly", TRUE)
       /\ cookie.config.Secure = LastSet(cookie.options, "Secure", FALSE)
       /\ cookie.config.SameSite = LastSet(cookie.options, "SameSite", "Lax")
  /\ cookie.built = "auth" =>
       /\ cookie.config.Name = "token"
       /\ cookie.config.Value = LastSet(cookie.options, "Value", "test-token")
       /\ cookie.config.Path = LastSet(cookie.options, "Path", "/")
       /\ cookie.config.MaxAge = LastSet(cookie.options, "MaxAge", 12)
       /\ cookie.config.HttpOnly = LastSet(cookie.options, "HttpOnly", TRUE)
       /\ cookie.config.Secure = LastSet(cookie.options, "Secure", cookie.isProduction)
       /\ cookie.config.SameSite = LastSet(cookie.options, "SameSite", "Lax")
       /\ Setting(cookie.options, "Secure") = {} =>
            (cookie.config.Secure <=> cookie.isProduction)

\* C25 witness: an authentication cookie was built for production from
\* two Secure options of the caller that disagree, the last one false.
C25_Witness ==
  /\ cookie.built = "auth"
  /\ cookie.isProduction
  /\ Len(cookie.options) >= 2
  /\ cookie.options[1] = With("Secure", TRUE)
  /\ cookie.options[2] = With("Secure", FALSE)
  /\ ~cookie.config.Secure

\* ------------------------------------------------------ CommentValidator
\* The dynamic types of the values handed to Validate(input interface{}).
InputTypes == {"CommentValidationData", "*CommentValidationData", "string"}

\* The values handed to Validate: a CommentValidationData, a pointer to
\* one, or a string; the last two carry no fields Validate can read.
CommentInputs ==
  [type : InputTypes, Content : {"", "x", "I liked the watch"},
   Rating : (0 - MaxRating)..MaxRating]

\* A validator that accepts a rating of zero to five.
MutValidateZeroRating(input) ==
  IF input.type # "CommentValidationData" THEN "Incorrect validation data"
  ELSE IF input.Content = "" THEN "Comment content cannot be empty"
  ELSE IF input.Rating < 0 \/ input.Rating > 5 THEN "The rating must be between 1 to 5"
  ELSE ""

\* CommentValidator.Validate(input): the message of the error it
\* returns, "" for nil.
CommentValidate(input) ==
  IF input.type # "CommentValidationData" THEN "Incorrect validation data"
  ELSE IF input.Content = "" THEN "Comment content cannot be empty"
  ELSE IF input.Rating = 0 THEN "You need to enter the product rating"
  ELSE IF input.Rating < 1 \/ input.Rating > 5 THEN "The rating must be between 1 to 5"
  ELSE ""

\* A caller validates one input.
ValidateComment(input) ==
  /\ ~comment.called
  /\ comment' = [called |-> TRUE, input |-> input, err |-> CommentValidate(input)]
  /\ UNCHANGED <<limiterVars, register, users, settings, password, request, manager, route, cookie>>

NextComment == \E input \in CommentInputs : ValidateComment(input)

\* CommentValidator.Validate is called with one input of any kind.
SpecComment == InitDefault /\ [][NextComment]_vars

\* C26: Validate returns nil exactly when the input is a
\* CommentValidationData with a non-empty Content and a Rating of 1 to 5;
\* any other input (another type, an empty content, a rating of zero,
\* below one or above five) gets an error.
C26_CommentValidExactly ==
  comment.called =>
    (comment.err = "" <=>
       /\ comment.input.type = "CommentValidationData"
       /\ comment.input.Content # ""
       /\ comment.input.Rating \in 1..5)

\* C26 witness: a CommentValidationData with content and the rating 5
\* was validated and accepted.
C26_Witness ==
  /\ comment.called
  /\ comment.input.type = "CommentValidationData"
  /\ comment.input.Content # ""
  /\ comment.input.Rating = 5
  /\ comment.err = ""

\* ----------------------------------------------------- PasswordValidator
minPasswordLength == 10

\* The sum of f over the set S.
RECURSIVE Sum(_, _)
Sum(f, S) ==
  IF S = {} THEN 0
  ELSE LET x == CHOOSE y \in S : TRUE IN f[x] + Sum(f, S \ {x})

\* The number of characters of the password.
Runes(chars) == Sum(chars, Characters)

\* len(password): the number of bytes of the password.
ByteLen(chars) == Sum([ch \in Characters |-> chars[ch] * ch.width], Characters)

\* The flag the loop over the characters leaves for a class.
Has(chars, class) == \E ch \in Characters : ch.class = class /\ chars[ch] > 0

\* PasswordValidator.Validate(password): the message of the error it
\* returns, "" for nil.
PasswordValidate(chars) ==
  IF ByteLen(chars) = 0 THEN "you cannot enter empty fields"
  ELSE IF ByteLen(chars) < minPasswordLength
       THEN "you cannot enter a password that is less than 10 characters"
  ELSE IF ~Has(chars, "upper") THEN "the password must have at least one uppercase letter"
  ELSE IF ~Has(chars, "digit") THEN "the password must have at least one number"
  ELSE IF ~Has(chars, "special") THEN "the password must have some special character"
  ELSE ""

\* The user types one more character.
TypeChar(ch) ==
  /\ ~password.validated
  /\ Runes(password.chars) < MaxPassword
  /\ password' = [password EXCEPT !.chars[ch] = @ + 1]
  /\ UNCHANGED <<limiterVars, register, users, settings, request, manager, route, cookie, comment>>

\* The password typed so far is validated.
ValidatePassword ==
  /\ ~password.validated
  /\ password' = [password EXCEPT !.validated = TRUE,
                                   !.err = PasswordValidate(password.chars)]
  /\ UNCHANGED <<limiterVars, register, users, settings, request, manager, route, cookie, comment>>

NextPassword == (\E ch \in Characters : TypeChar(ch)) \/ ValidatePassword

\* A password is typed and then validated.
SpecPassword == InitDefault /\ [][NextPassword]_vars

\* C27: Validate returns nil exactly when the password has at least 10
\* characters, an uppercase letter, a digit and a punctuation or symbol
\* character.
C27_PasswordValidExactly ==
  password.validated =>
    (password.err = "" <=>
       /\ Runes(password.chars) >= 10
       /\ Has(password.chars, "upper")
       /\ Has(password.chars, "digit")
       /\ Has(password.chars, "special"))

\* The cached entries that no lookup is working on.
AtRest == {ipLimiterCache[ip] : ip \in {k \in IPs : ipLimiterCache[k] # 0}}

\* The entry under key was in the cache and this step removes it.
Removed(key) == ipLimiterCache[key] # 0 /\ ipLimiterCache'[key] = 0

\* An entry is not removed while it has been idle for at most T.
KeptWhileFresh ==
  \A key \in IPs :
    Removed(key) => now - entries[ipLimiterCache[key]].lastSeen > IdleTicks

Settings == [requests : 1..MaxRate, burst : 1..MaxBurst, cleanup_minutes : 1..MaxBurst]

\* AppConfig.GetRateLimitConfig()
GetRateLimitConfig(loaded) ==
  [RequestPerSecond |-> loaded.requests, Burst |-> loaded.cleanup_minutes]

\* cmd/api/main.go: rateHandler := setupRateLimiter(appConfig), that is
\* NewDefaultRateLimiter(limiterConfig.RequestPerSecond, limiterConfig.Burst)
\* on limiterConfig := appConfig.GetRateLimitConfig(); then the router
\* and http.ListenAndServe.
SetupRateLimiter ==
  /\ boot.path = "api" /\ boot.pc = "start"
  /\ defaultConfig' = GetRateLimitConfig(settings)
  /\ boot' = [boot EXCEPT !.pc = "serve", !.limited = 1]
  /\ UNCHANGED <<now, ipLimiterCache, entries, inflight, sweep,
               calls, hist, pending, served, ticker, appVars>>

\* cmd/api/main.go is started on a configuration file.
InitSettings ==
  /\ now = StartTime
  /\ defaultConfig = ManagerDefault
  /\ ipLimiterCache = [ip \in IPs |-> 0]
  /\ entries = <<>>
  /\ inflight = EmptyBag
  /\ sweep = IdleSweep
  /\ calls = 0
  /\ hist = <<>>
  /\ pending = IdleSetter(0)
  /\ served = {}
  /\ boot = MainStart("api")
  /\ ticker = NoTicker
  /\ HandlersIdle
  /\ settings \in Settings

NextSettings ==
  \/ SetupRateLimiter
  \/ Serving /\ inflight = EmptyBag /\ \E ip \in OneClient : GetBegin(ip)
  \/ \E c \in InFlight : GetLoad(c)
  \/ \E c \in InFlight : GetTouch(c)
  \/ \E c \in InFlight : GetNew(c)
  \/ \E c \in InFlight : GetLoadOrStore(c)
  \/ \E c \in InFlight : LimiterAllow(c)
  \/ Tick

\* The server of cmd/api/main.go from its configuration on: startup,
\* then the requests of one client.
SpecSettings == InitSettings /\ [][NextSettings]_vars

\* C29: once the server is serving, the default pair of the limiter is
\* the configured requests per second and the configured burst, and so
\* are the rate and the burst of every bucket it creates.
C29_BucketsFollowSettings ==
  Serving =>
    /\ defaultConfig.RequestPerSecond = settings.requests
    /\ defaultConfig.Burst = settings.burst
    /\ \A e \in Entries :
         /\ entries[e].limiter.limit = settings.requests
         /\ entries[e].limiter.burst = settings.burst

\* --------------------------------------------------- UserRegisterService
minUserNameLength == 5

\* The password of width-one characters with so many uppercase letters,
\* lowercase letters, digits and symbols.
PasswordOf(upper, lower, digit, special) ==
  [ch \in Characters |->
     IF ch.width # 1 THEN 0
     ELSE IF ch.class = "upper" THEN upper
     ELSE IF ch.class = "lower" THEN lower
     ELSE IF ch.class = "digit" THEN digit
     ELSE special]

\* The passwords of the accounts: "", "A1!", "abcdefgh1@", "Abcdefgh1@".
Passwords ==
  {PasswordOf(0, 0, 0, 0), PasswordOf(1, 0, 1, 1), PasswordOf(0, 8, 1, 1),
   PasswordOf(1, 7, 1, 1)}

\* UserNameValidator.Validate(username): the message of the error, ""
\* for nil.
UserNameValidate(username) ==
  IF username = 0 THEN "you cannot enter empty fields"
  ELSE IF username < minUserNameLength
       THEN "you cannot enter a name that is less than 5 characters"
  ELSE ""

\* Register(account) is called.  A user name is its length in bytes;
\* names of one length are one name.
Register(username, pw) ==
  /\ register.pc \in {"idle", "done"}
  /\ register' = [NoRegister EXCEPT !.pc = "username", !.UserName = username,
                                    !.Password = pw]
  /\ UNCHANGED <<limiterVars, request, manager, route, cookie, comment, password,
               settings, users>>

\* 1. r.ValidateUserName(account.UserName)
RegisterUserName ==
  /\ register.pc = "username"
  /\ IF UserNameValidate(register.UserName) # ""
     THEN register' = [register EXCEPT !.pc = "done", !.err = "ValidationError",
                                       !.trace = Append(@, "ValidateUserName")]
     ELSE register' = [register EXCEPT !.pc = "password",
                                       !.trace = Append(@, "ValidateUserName")]
  /\ UNCHANGED <<limiterVars, request, manager, route, cookie, comment, password,
               settings, users>>

\* 2. r.ValidatePassword(account.Password)
RegisterPassword ==
  /\ register.pc = "password"
  /\ IF PasswordValidate(register.Password) # ""
     THEN register' = [register EXCEPT !.pc = "done", !.err = "ValidationError",
                                       !.trace = Append(@, "ValidatePassword")]
     ELSE register' = [register EXCEPT !.pc = "exists",
                                       !.trace = Append(@, "ValidatePassword")]
  /\ UNCHANGED <<limiterVars, request, manager, route, cookie, comment, password,
               settings, users>>

\* 3. r.CheckUserExists(account.UserName): the repository answers, or its
\* query fails.
RegisterExists(queryOk) ==
  /\ register.pc = "exists"
  /\ register' =
       [register EXCEPT
          !.trace = Append(@, "CheckUserExists"),
          !.pc = IF queryOk /\ register.UserName \notin users THEN "save" ELSE "done",
          !.err = IF ~queryOk THEN "InternalError"
                  ELSE IF register.UserName \in users THEN "ConflictError" ELSE ""]
  /\ UNCHANGED <<limiterVars, request, manager, route, cookie, comment, password,
               settings, users>>

\* 4. r.UserRepo.SaveUser(account.UserName, account.Password): the
\* repository stores the user, or fails and stores nothing.
RegisterSave(saveOk) ==
  /\ register.pc = "save"
  /\ register' =
       [register EXCEPT !.trace = Append(@, "SaveUser"),
                        !.pc = IF saveOk THEN "token" ELSE "done",
                        !.saved = saveOk,
                        !.err = IF saveOk THEN "" ELSE "SaveError"]
  /\ users' = IF saveOk THEN users \cup {register.UserName} ELSE users
  /\ UNCHANGED <<limiterVars, request, manager, route, cookie, comment, password,
               settings>>

\* 5. return r.GenerateToken(account.UserName): securityAuth.GenerateJWT
\* signs a token, or fails.
RegisterToken(signOk) ==
  /\ register.pc = "token"
  /\ register' =
       [register EXCEPT !.trace = Append(@, "GenerateToken"),
                        !.pc = "done",
                        !.token = IF signOk THEN "jwt" ELSE "",
                        !.err = IF signOk THEN "" ELSE "InternalError"]
  /\ UNCHANGED <<limiterVars, request, manager, route, cookie, comment, password,
               settings, users>>

NextRegister ==
  \/ \E username \in 0..MaxUserName : \E pw \in Passwords : Register(username, pw)
  \/ RegisterUserName
  \/ RegisterPassword
  \/ \E queryOk \in BOOLEAN : RegisterExists(queryOk)
  \/ \E saveOk \in BOOLEAN : RegisterSave(saveOk)
  \/ \E signOk \in BOOLEAN : RegisterToken(signOk)

\* Register calls, one after the other, on a repository that starts
\* empty.
SpecRegister == InitDefault /\ [][NextRegister]_vars

====
